---------------------------- MODULE Spec2Model ----------------------------
(***************************************************************************)
(* Model of crates/git_ui/src/file_comparison_picker.rs: the picker        *)
(* delegate FileComparisonDelegate (candidate list, filtered view,         *)
(* selected index) and the asynchronous pipeline started by confirm.       *)
(*                                                                         *)
(* Strings that the code lower-cases and searches (display texts and       *)
(* queries) are sequences of one-character strings over Alphabet.          *)
(***************************************************************************)
EXTENDS Naturals, Sequences, FiniteSets, Bags

VARIABLES
    all_matches,      \* FileComparisonDelegate.all_matches : Vec<FileMatch>
    matches,          \* FileComparisonDelegate.matches     : Vec<FileMatch>
    selected_index,   \* FileComparisonDelegate.selected_index : usize
    active_buffer,    \* FileComparisonDelegate.active_buffer (id and file identity)
    workspace_alive,  \* whether WeakEntity<Workspace>::upgrade() yields Some
    window_open,      \* whether the host window still exists
    active_pane,      \* workspace.active_pane()
    tasks,            \* the futures spawned by confirm, in spawn order
    dismissed,        \* number of DismissEvent emitted by confirm
    log,              \* bag of records written by detach_and_log_err
    pane_items,       \* per pane, the bag of add_item calls it received
    last_confirm      \* history: the path the latest confirm call took

vars == <<all_matches, matches, selected_index, active_buffer, workspace_alive,
          window_open, active_pane, tasks, dismissed, log, pane_items,
          last_confirm>>

widget == <<all_matches, matches, selected_index, active_buffer>>
effects == <<tasks, dismissed, log, pane_items>>
host == <<workspace_alive, window_open, active_pane>>

---------------------------------------------------------------------------
(* Bounds of the model. *)

MaxCandidates == 2      \* longest open_buffers list given to new
MaxQueryLen == 1        \* longest query typed into the picker
MaxTasks == 2           \* most confirm calls that get past both guards

(* One-character strings.  "A" is a capital letter and "a" its small form  *)
(* (as GREEK CAPITAL LETTER ALPHA and the small alpha), "b" a small letter,*)
(* SIGMA is GREEK CAPITAL LETTER SIGMA, sigma the small letter and         *)
(* final_sigma the small final form.                                       *)
Alphabet == {"A", "a", "b", "SIGMA", "sigma", "final_sigma"}

(* Display texts of the open tabs the picker is built from: "A" followed   *)
(* by a capital sigma, which ends the word, and "b" followed by "A".       *)
TabTitles == {<<"A", "SIGMA">>, <<"b", "A">>}

Panes == {"left", "right"}

NoFile == "none"
ActiveFiles == {NoFile, "a.txt"}

Strings(n) == UNION {[1..k -> Alphabet] : k \in 0..n}

Queries == Strings(MaxQueryLen)

(* usize arguments the picker framework may pass to set_selected_index *)
Indexes == 0..(MaxCandidates + 1)

---------------------------------------------------------------------------
(* Library functions used by the delegate. *)

Min(a, b) == IF a <= b THEN a ELSE b

(* usize::saturating_sub *)
SaturatingSub(a, b) == IF a >= b THEN a - b ELSE 0

(* char::to_lowercase for the letters of Alphabet *)
LowerChar(c) ==
    CASE c = "A" -> "a"
      [] c = "SIGMA" -> "sigma"
      [] OTHER -> c

(* core::unicode::Cased and Case_Ignorable: every letter of Alphabet is    *)
(* cased and none is case-ignorable.                                       *)
Cased(c) == c \in Alphabet
Case_Ignorable(c) == FALSE

(* case_ignorable_then_cased over the characters before position i, read   *)
(* backwards, and over those after it                                      *)
CasedBefore(s, i) ==
    \E j \in 1..(i - 1) :
        /\ ~Case_Ignorable(s[j])
        /\ \A k \in (j + 1)..(i - 1) : Case_Ignorable(s[k])
        /\ Cased(s[j])

CasedAfter(s, i) ==
    \E j \in (i + 1)..Len(s) :
        /\ ~Case_Ignorable(s[j])
        /\ \A k \in (i + 1)..(j - 1) : Case_Ignorable(s[k])
        /\ Cased(s[j])

(* map_uppercase_sigma: a capital sigma becomes the final form when it     *)
(* ends a word, the plain small sigma otherwise                            *)
IsWordFinal(s, i) == CasedBefore(s, i) /\ ~CasedAfter(s, i)

to_lowercase(s) ==
    [i \in 1..Len(s) |->
        IF s[i] = "SIGMA" /\ IsWordFinal(s, i) THEN "final_sigma" ELSE LowerChar(s[i])]

(* str::contains for a string pattern *)
contains(s, pat) ==
    \E off \in 0..Len(s) :
        /\ off + Len(pat) <= Len(s)
        /\ \A i \in 1..Len(pat) : s[off + i] = pat[i]

(* Iterator::filter(..).cloned().collect() over a Vec *)
RECURSIVE FilterSeq(_, _)
FilterSeq(s, q) ==
    IF s = <<>> THEN <<>>
    ELSE LET rest == FilterSeq(Tail(s), q)
         IN  IF contains(to_lowercase(Head(s).display_text), q)
             THEN <<Head(s)>> \o rest
             ELSE rest

---------------------------------------------------------------------------
(* FileComparisonDelegate::new *)

(* every candidate given the active buffer's entity *)
FileMatchOfActiveBuffer(buffer, display_text) ==
    [buffer |-> 0, display_text |-> display_text]

FileMatch(buffer, display_text) ==
    [buffer |-> buffer, display_text |-> display_text]

(* open_buffers: the i-th open buffer is the entity i, with its tab title *)
OpenBufferLists ==
    UNION {[1..n -> TabTitles] : n \in 0..MaxCandidates}

(* The tabs of the workspace: the active buffer, entity 0, and after it    *)
(* the buffers of the other tabs, entity i with the i-th title.            *)
WorkspaceTabs(titles) ==
    <<<<0, <<"a">>>>>> \o [i \in 1..Len(titles) |-> <<i, titles[i]>>]

(* the tabs whose buffer is not the active one *)
OtherTabs(tabs, active) ==
    LET NotActive(tab) == tab[1] # active
    IN  SelectSeq(tabs, NotActive)

(* the open_buffers the caller passes: every tab but the active buffer's *)
OpenBuffers(titles) == OtherTabs(WorkspaceTabs(titles), 0)

New(open_buffers, file) ==
    /\ all_matches = [i \in 1..Len(open_buffers) |->
                         FileMatch(open_buffers[i][1], open_buffers[i][2])]
    /\ matches = all_matches
    /\ selected_index = 0
    /\ active_buffer = [id |-> 0, file |-> file]

(* the host when the picker is opened, before any confirm *)
HostAtOpen ==
    /\ workspace_alive = TRUE
    /\ window_open = TRUE
    /\ active_pane \in Panes
    /\ tasks = <<>>
    /\ dismissed = 0
    /\ log = EmptyBag
    /\ pane_items = [p \in Panes |-> EmptyBag]
    /\ last_confirm = [path |-> "none"]

(* The tab lists the pipeline is explored from: no other tab, one, two. *)
SampleTabs == {<<>>, <<<<"A", "SIGMA">>>>, <<<<"A", "SIGMA">>, <<"b", "A">>>>}

Init ==
    /\ \E titles \in SampleTabs, file \in ActiveFiles :
          New(OpenBuffers(titles), file)
    /\ HostAtOpen

(* every tab list up to MaxCandidates entries *)
InitPicker ==
    /\ \E titles \in OpenBufferLists, file \in ActiveFiles :
          New(OpenBuffers(titles), file)
    /\ HostAtOpen

---------------------------------------------------------------------------
(* PickerDelegate for FileComparisonDelegate.  Every handler receives the  *)
(* picker's window, so none runs once that window is closed.               *)

(* set_selected_index clamping to the length instead of the last index *)
ClampIndexToLen(ix, len) == Min(ix, len)

(* the value set_selected_index stores *)
ClampIndex(ix, len) == Min(ix, SaturatingSub(len, 1))

SetSelectedIndex(ix) ==
    /\ window_open
    /\ selected_index' = ClampIndex(ix, Len(matches))
    /\ UNCHANGED <<all_matches, matches, active_buffer, host, effects, last_confirm>>

(* update_matches adding what it found to the list it had, not replacing it *)
FilterMatchesExtending(all, query) ==
    matches \o (IF query = <<>> THEN all ELSE FilterSeq(all, to_lowercase(query)))

(* the list update_matches stores *)
FilterMatches(all, query) ==
    IF query = <<>> THEN all
    ELSE FilterSeq(all, to_lowercase(query))

(* update_matches keeping the selection it found *)
ResetIndexKeeps(old) == old

(* the index update_matches stores *)
ResetIndex(old) == 0

(* update_matches narrowing all_matches itself *)
UpdateMatchesRetaining(query) ==
    /\ window_open
    /\ all_matches' = FilterMatches(all_matches, query)
    /\ matches' = all_matches'
    /\ selected_index' = ResetIndex(selected_index)
    /\ UNCHANGED <<active_buffer, host, effects, last_confirm>>

UpdateMatches(query) ==
    /\ window_open
    /\ matches' = FilterMatches(all_matches, query)
    /\ selected_index' = ResetIndex(selected_index)
    /\ UNCHANGED <<all_matches, active_buffer, host, effects, last_confirm>>

(* the fallback title left empty *)
ActiveTitleEmptyFallback(buffer) == IF buffer.file = NoFile THEN "" ELSE buffer.file

(* active_buffer.read(cx).file().map(file_name).unwrap_or("Untitled") *)
ActiveTitle(buffer) == IF buffer.file = NoFile THEN "Untitled" ELSE buffer.file

(* the task handle dropped instead of detached, which cancels the future *)
SpawnedTaskDropped(selected_match) ==
    [active_buffer   |-> active_buffer.id,
     compare_buffer  |-> selected_match.buffer,
     active_title    |-> ActiveTitle(active_buffer),
     compare_title   |-> selected_match.display_text,
     st              |-> "cancelled"]

(* the future confirm hands to window.spawn, with what it captured *)
SpawnedTask(selected_match) ==
    [active_buffer   |-> active_buffer.id,
     compare_buffer  |-> selected_match.buffer,
     active_title    |-> ActiveTitle(active_buffer),
     compare_title   |-> selected_match.display_text,
     st              |-> "building"]

(* an early return that still emits DismissEvent *)
ConfirmAbortsDismissing(outcome) ==
    /\ last_confirm' = [path |-> outcome]
    /\ dismissed' = dismissed + 1
    /\ UNCHANGED <<widget, host, tasks, log, pane_items>>

(* confirm returns early: nothing but the history variable changes *)
ConfirmAborts(outcome) ==
    /\ last_confirm' = [path |-> outcome]
    /\ UNCHANGED <<widget, host, effects>>

(* confirm spawning the future but leaving the dismissal to it *)
ConfirmSpawnsWithoutDismiss ==
    /\ Len(tasks) < MaxTasks
    /\ tasks' = Append(tasks, SpawnedTask(matches[selected_index + 1]))
    /\ last_confirm' = [path |-> "spawned", pane |-> active_pane]
    /\ UNCHANGED <<widget, host, dismissed, log, pane_items>>

(* confirm putting the list back to its unfiltered, unselected state *)
ConfirmSpawnsClearingSelection ==
    /\ Len(tasks) < MaxTasks
    /\ tasks' = Append(tasks, SpawnedTask(matches[selected_index + 1]))
    /\ dismissed' = dismissed + 1
    /\ last_confirm' = [path |-> "spawned", pane |-> active_pane]
    /\ matches' = all_matches
    /\ selected_index' = 0
    /\ UNCHANGED <<all_matches, active_buffer, host, log, pane_items>>

ConfirmSpawns ==
    /\ Len(tasks) < MaxTasks
    /\ tasks' = Append(tasks, SpawnedTask(matches[selected_index + 1]))
    /\ dismissed' = dismissed + 1
    /\ last_confirm' = [path |-> "spawned", pane |-> active_pane]
    /\ UNCHANGED <<widget, host, log, pane_items>>

(* confirm without the upgrade check on the weak workspace handle *)
ConfirmWithoutUpgrade(secondary) ==
    /\ window_open
    /\ IF matches = <<>> THEN ConfirmAborts("no_matches")
       ELSE ConfirmSpawns

Confirm(secondary) ==
    /\ window_open
    /\ IF matches = <<>> THEN ConfirmAborts("no_matches")
       ELSE IF ~workspace_alive THEN ConfirmAborts("no_workspace")
       ELSE ConfirmSpawns

(* dismissed has an empty body *)
Dismissed ==
    /\ window_open
    /\ UNCHANGED vars

(* the row render_match makes for the candidate at ix *)
ListItem(ix, selected) ==
    [id |-> ix, toggle_state |-> selected, label |-> matches[ix + 1].display_text]

(* render_match reads matches[ix]; the picker asks for the rows it counted *)
RenderMatch(ix, selected) ==
    /\ window_open
    /\ ix < Len(matches)
    /\ ListItem(ix, selected).label = matches[ix + 1].display_text
    /\ UNCHANGED vars

---------------------------------------------------------------------------
(* The spawned future: build_diff_buffer(...).await?, then                 *)
(* workspace.update_in(..), its error logged by detach_and_log_err.        *)

Building(i) == i \in 1..Len(tasks) /\ tasks[i].st = "building"

LogRecord(i, error) == [task |-> i, error |-> error]

(* the view made from the picker's selection as it is when the diff is    *)
(* ready, instead of from what confirm captured                           *)
TextDiffViewOfCurrentSelection(t) ==
    LET now == IF matches # <<>> /\ selected_index < Len(matches)
               THEN matches[selected_index + 1]
               ELSE [buffer |-> t.compare_buffer, display_text |-> t.compare_title]
    IN  [source_buffer |-> now.buffer,
         target_buffer |-> t.active_buffer,
         source_title  |-> now.display_text,
         target_title  |-> t.active_title]

(* super::TextDiffView::new_from_buffers *)
TextDiffView(t) ==
    [source_buffer |-> t.compare_buffer,
     target_buffer |-> t.active_buffer,
     source_title  |-> t.compare_title,
     target_title  |-> t.active_title]

(* adding to a fixed pane instead of the active one *)
TargetPaneFixed(t) == "left"

(* the pane the re-entry callback adds the item to *)
TargetPane(t) == active_pane

(* pane.add_item(Box::new(diff_view), true, true, None, window, cx) *)
AddItem(i, t) ==
    [task |-> i, item |-> TextDiffView(t), activate_pane |-> TRUE, focus_item |-> TRUE]

(* workspace.update_in(cx, ..) runs its callback in the window, and       *)
(* returns an error without running it once the window is gone            *)
UpdateInRuns == window_open

(* the future detached without logging its error *)
DiffBuildFailsUnlogged(i) ==
    /\ Building(i)
    /\ tasks' = [tasks EXCEPT ![i].st = "build_failed"]
    /\ UNCHANGED <<widget, host, dismissed, log, pane_items, last_confirm>>

(* the failing future adding its item all the same before the error is logged *)
DiffBuildFailsAfterAddItem(i) ==
    /\ Building(i)
    /\ tasks' = [tasks EXCEPT ![i].st = "build_failed"]
    /\ log' = log (+) SetToBag({LogRecord(i, "build_diff_buffer")})
    /\ pane_items' =
         [pane_items EXCEPT ![active_pane] = @ (+) SetToBag({AddItem(i, tasks[i])})]
    /\ UNCHANGED <<widget, host, dismissed, last_confirm>>

(* build_diff_buffer returns Err: `?` ends the future, the error is logged *)
DiffBuildFails(i) ==
    /\ Building(i)
    /\ tasks' = [tasks EXCEPT ![i].st = "build_failed"]
    /\ log' = log (+) SetToBag({LogRecord(i, "build_diff_buffer")})
    /\ UNCHANGED <<widget, host, dismissed, pane_items, last_confirm>>

(* the re-entry adding the item whether or not the window is still there *)
DiffBuildSucceedsUnguarded(i) ==
    /\ Building(i)
    /\ tasks' = [tasks EXCEPT ![i].st = IF window_open THEN "shown" ELSE "window_gone"]
    /\ pane_items' =
         [pane_items EXCEPT ![TargetPane(tasks[i])] =
             @ (+) SetToBag({AddItem(i, tasks[i])})]
    /\ UNCHANGED <<widget, host, dismissed, log, last_confirm>>

(* the future suspending a second time between the diff and update_in *)
DiffBuildSucceedsSuspending(i) ==
    /\ Building(i)
    /\ tasks' = [tasks EXCEPT ![i].st = "awaiting_update_in"]
    /\ UNCHANGED <<widget, host, dismissed, log, pane_items, last_confirm>>

(* build_diff_buffer returns Ok: the future goes on to update_in at once *)
DiffBuildSucceeds(i) ==
    /\ Building(i)
    /\ IF UpdateInRuns
       THEN /\ tasks' = [tasks EXCEPT ![i].st = "shown"]
            /\ pane_items' =
                 [pane_items EXCEPT ![TargetPane(tasks[i])] =
                     @ (+) SetToBag({AddItem(i, tasks[i])})]
            /\ UNCHANGED log
       ELSE /\ tasks' = [tasks EXCEPT ![i].st = "window_gone"]
            /\ log' = log (+) SetToBag({LogRecord(i, "update_in")})
            /\ UNCHANGED pane_items
    /\ UNCHANGED <<widget, host, dismissed, last_confirm>>

---------------------------------------------------------------------------
(* The host application. *)

ActivatePane(p) ==
    /\ window_open
    /\ p # active_pane
    /\ active_pane' = p
    /\ UNCHANGED <<widget, workspace_alive, window_open, effects, last_confirm>>

CloseWindow ==
    /\ window_open
    /\ window_open' = FALSE
    /\ UNCHANGED <<widget, workspace_alive, active_pane, effects, last_confirm>>

(* The active buffer, so far without a file, is saved under a name. *)
SaveActiveBuffer(file) ==
    /\ window_open
    /\ active_buffer.file = NoFile
    /\ file # NoFile
    /\ active_buffer' = [active_buffer EXCEPT !.file = file]
    /\ UNCHANGED <<all_matches, matches, selected_index, host, effects, last_confirm>>

(* The workspace entity is released once no strong handle is left; every   *)
(* future still building holds the handle confirm upgraded.                *)
ReleaseWorkspace ==
    /\ window_open
    /\ workspace_alive
    /\ ~ \E i \in 1..Len(tasks) : Building(i)
    /\ workspace_alive' = FALSE
    /\ UNCHANGED <<widget, window_open, active_pane, effects, last_confirm>>

---------------------------------------------------------------------------

Next ==
    \/ \E ix \in Indexes : SetSelectedIndex(ix)
    \/ \E query \in Queries : UpdateMatches(query)
    \/ \E secondary \in BOOLEAN : Confirm(secondary)
    \/ Dismissed
    \/ \E ix \in Indexes, selected \in BOOLEAN : RenderMatch(ix, selected)
    \/ \E i \in 1..MaxTasks : DiffBuildFails(i)
    \/ \E i \in 1..MaxTasks : DiffBuildSucceeds(i)
    \/ \E p \in Panes : ActivatePane(p)
    \/ CloseWindow
    \/ ReleaseWorkspace
    \/ \E file \in ActiveFiles : SaveActiveBuffer(file)

Spec == Init /\ [][Next]_vars

(* The foreground executor runs every detached future that is ready, and  *)
(* build_diff_buffer returns: a future that is building ends.             *)
FutureEnds(i) == DiffBuildFails(i) \/ DiffBuildSucceeds(i)

(* The futures: what spawns one, what ends one and what the host does      *)
(* meanwhile, with the picker's list left unfiltered.                      *)
NextFutures ==
    \/ \E ix \in Indexes : SetSelectedIndex(ix)
    \/ \E secondary \in BOOLEAN : Confirm(secondary)
    \/ \E i \in 1..MaxTasks : FutureEnds(i)
    \/ \E p \in Panes : ActivatePane(p)
    \/ CloseWindow
    \/ ReleaseWorkspace
    \/ \E file \in ActiveFiles : SaveActiveBuffer(file)

SpecFair ==
    /\ Init
    /\ [][NextFutures]_vars
    /\ \A i \in 1..MaxTasks : WF_vars(FutureEnds(i))

(* The picker alone: the three calls the framework makes on the delegate,  *)
(* with the spawned futures left pending and the host left as it is.       *)
NextPicker ==
    \/ \E ix \in Indexes : SetSelectedIndex(ix)
    \/ \E query \in Queries : UpdateMatches(query)
    \/ \E secondary \in BOOLEAN : Confirm(secondary)
    \/ Dismissed
    \/ \E ix \in Indexes, selected \in BOOLEAN : RenderMatch(ix, selected)

SpecPicker == InitPicker /\ [][NextPicker]_vars

(* The list alone: the calls that read or write matches and selected_index, *)
(* with no confirm at all, until the window is closed.                      *)
NextFilter ==
    \/ \E ix \in Indexes : SetSelectedIndex(ix)
    \/ \E query \in Queries : UpdateMatches(query)
    \/ CloseWindow
    \/ Dismissed
    \/ \E ix \in Indexes, selected \in BOOLEAN : RenderMatch(ix, selected)

SpecFilter == InitPicker /\ [][NextFilter]_vars

---------------------------------------------------------------------------
(* Properties of the picker's list. *)

(* C1: whenever matches is non-empty, 0 <= selected_index < matches.len(), *)
(* and selected_index is 0 when matches is empty; so matches[selected_index]*)
(* in confirm, read after the emptiness guard, is in bounds.               *)
C1_SelectedIndexInBounds ==
    /\ selected_index \in Nat
    /\ matches # <<>> => selected_index < Len(matches)
    /\ matches # <<>> => (selected_index + 1) \in DOMAIN matches
    /\ matches = <<>> => selected_index = 0

(* confirm has read the last of two visible candidates *)
C1_Witness ==
    /\ Len(matches) = 2
    /\ selected_index = 1
    /\ last_confirm.path = "spawned"
    /\ tasks[Len(tasks)].compare_buffer = matches[2].buffer

(* Case-insensitive containment, character by character: ignoring case,   *)
(* the capital, small and final sigma are one letter, and so are A and a.  *)
CaseFold(c) ==
    CASE c = "A" -> "a"
      [] c \in {"SIGMA", "final_sigma"} -> "sigma"
      [] OTHER -> c

ContainsIgnoringCase(text, q) ==
    \E off \in 0..Len(text) :
        /\ off + Len(q) <= Len(text)
        /\ \A i \in 1..Len(q) : CaseFold(text[off + i]) = CaseFold(q[i])

(* v is the subsequence of all, in order, of the candidates containing q:  *)
(* some strictly increasing choice of positions of all yields v, and it    *)
(* picks exactly the positions whose display text contains q.              *)
IsVisibleSubsequence(v, all, q) ==
    \E pos \in [1..Len(v) -> 1..Len(all)] :
        /\ \A i, j \in 1..Len(v) : i < j => pos[i] < pos[j]
        /\ \A i \in 1..Len(v) : v[i] = all[pos[i]]
        /\ \A k \in 1..Len(all) :
              ContainsIgnoringCase(all[k].display_text, q)
                  <=> \E i \in 1..Len(v) : pos[i] = k

(* C2: update_matches(q) sets matches to the subsequence of all_matches,   *)
(* in original order, of exactly the candidates whose display text         *)
(* contains q case-insensitively, and to all_matches itself for the empty  *)
(* query, whatever matches and selected_index were before.                 *)
C2_FilterIsCaseInsensitiveSubsequence ==
    [][\A q \in Queries :
          UpdateMatches(q) =>
              /\ IsVisibleSubsequence(matches', all_matches, q)
              /\ q = <<>> => matches' = all_matches]_vars

(* C3: right after update_matches, for any query and any earlier           *)
(* selection, selected_index is 0 whenever matches is non-empty.           *)
C3_FilterResetsSelection ==
    [][(\E q \in Queries : UpdateMatches(q)) =>
          (matches' # <<>> => selected_index' = 0)]_vars

(* a query has narrowed two candidates down to one, selected at index 0 *)
C3_Witness ==
    /\ Len(all_matches) = 2
    /\ Len(matches) = 1
    /\ selected_index = 0

(* C4: set_selected_index(ix) stores matches.len() - 1 (0 for an empty     *)
(* list) when ix >= matches.len(), and ix itself when ix is in range; it   *)
(* can always be called.                                                   *)
C4_SetSelectedIndexClamps ==
    /\ [][\A ix \in Indexes :
            SetSelectedIndex(ix) =>
                selected_index' =
                    IF ix < Len(matches) THEN ix
                    ELSE IF matches = <<>> THEN 0
                    ELSE Len(matches) - 1]_vars
    /\ [](window_open => \A ix \in Indexes : ENABLED SetSelectedIndex(ix))

(* an index within range, other than 0, has been stored *)
C4_Witness ==
    /\ Len(matches) = 2
    /\ selected_index = 1

---------------------------------------------------------------------------
(* Properties of confirm and of the futures it spawns. *)

(* number of add_item calls, over all panes, made for task i *)
ItemCount(i, items) ==
    LET n[ps \in SUBSET Panes] ==
            IF ps = {} THEN 0
            ELSE LET p == CHOOSE x \in ps : TRUE
                     mine == {it \in BagToSet(items[p]) : it.task = i}
                     c[its \in SUBSET mine] ==
                         IF its = {} THEN 0
                         ELSE LET it == CHOOSE x \in its : TRUE
                              IN  CopiesIn(it, items[p]) + c[its \ {it}]
                 IN  c[mine] + n[ps \ {p}]
    IN  n[Panes]

(* number of records logged for task i *)
LogCount(i, records) ==
    CopiesIn(LogRecord(i, "build_diff_buffer"), records)
        + CopiesIn(LogRecord(i, "update_in"), records)

(* C5: confirm called while matches is empty has no effect: no future is   *)
(* spawned, no DismissEvent is emitted, nothing is logged or added to a    *)
(* pane, and the delegate's fields stay as they were.                      *)
C5_ConfirmOnEmptyIsNoOp ==
    [][((\E secondary \in BOOLEAN : Confirm(secondary)) /\ matches = <<>>) =>
          UNCHANGED <<widget, host, effects>>]_vars

(* confirm has returned at the emptiness guard, after a query that left no match *)
C5_Witness ==
    /\ last_confirm.path = "no_matches"
    /\ matches = <<>>
    /\ all_matches # <<>>
    /\ window_open

(* C6: confirm called while the weak workspace handle no longer upgrades   *)
(* has no effect even with matches non-empty: no future is spawned, no     *)
(* DismissEvent is emitted, and the delegate's fields stay as they were.   *)
C6_ConfirmOnDeadWorkspaceIsNoOp ==
    [][((\E secondary \in BOOLEAN : Confirm(secondary))
            /\ matches # <<>> /\ ~workspace_alive) =>
          UNCHANGED <<widget, host, effects>>]_vars

(* confirm has returned at the upgrade, with a candidate selected *)
C6_Witness ==
    /\ last_confirm.path = "no_workspace"
    /\ matches # <<>>
    /\ ~workspace_alive

(* C7: a confirm that passes both guards emits DismissEvent in the very    *)
(* step that spawns the future, which is then still building; so whenever  *)
(* the i-th future completes (item added, error logged), the i-th          *)
(* DismissEvent had been emitted before that step.                         *)
C7_DismissBeforeCompletion ==
    [][\A i \in 1..Len(tasks') :
          /\ i > Len(tasks) =>
                /\ dismissed' = dismissed + 1
                /\ tasks'[i].st = "building"
                /\ LogCount(i, log') = 0
                /\ ItemCount(i, pane_items') = 0
          /\ tasks'[i].st # "building" => (i <= Len(tasks) /\ dismissed >= i)]_vars

(* two futures have completed, each after its confirm emitted DismissEvent *)
C7_Witness ==
    /\ Len(tasks) = 2
    /\ dismissed = 2
    /\ \A i \in 1..2 : tasks[i].st # "building"

(* C8: when build_diff_buffer fails for a future, exactly one record is    *)
(* logged for it, the future is over, and no item is ever added to a pane  *)
(* for it.                                                                 *)
C8_BuildFailureLoggedOnce ==
    /\ [](\A i \in 1..Len(tasks) :
            tasks[i].st = "build_failed" =>
                /\ LogCount(i, log) = 1
                /\ CopiesIn(LogRecord(i, "build_diff_buffer"), log) = 1
                /\ ItemCount(i, pane_items) = 0
                /\ ~ENABLED (DiffBuildFails(i) \/ DiffBuildSucceeds(i)))
    /\ [][\A i \in 1..Len(tasks) :
            DiffBuildFails(i) =>
                /\ tasks'[i].st = "build_failed"
                /\ UNCHANGED <<widget, host, dismissed, pane_items>>]_vars

(* one future failed to build while another one added its item *)
C8_Witness ==
    /\ Len(tasks) = 2
    /\ tasks[1].st = "build_failed"
    /\ tasks[2].st = "shown"

(* C9: when build_diff_buffer succeeds and the window is still there,      *)
(* exactly one item is added for that future, to the pane that is active   *)
(* when the re-entry callback runs, with activate_pane and focus_item true.*)
C9_ItemAddedToThenActivePane ==
    /\ [][\A i \in 1..Len(tasks) :
            (DiffBuildSucceeds(i) /\ window_open) =>
                /\ tasks'[i].st = "shown"
                /\ ItemCount(i, pane_items') = 1
                /\ \E it \in BagToSet(pane_items'[active_pane]) :
                      /\ it.task = i
                      /\ it.item = TextDiffView(tasks[i])
                      /\ it.activate_pane /\ it.focus_item
                /\ \A j \in 1..Len(tasks) :
                      j # i => ItemCount(j, pane_items') = ItemCount(j, pane_items)]_vars
    /\ [](\A i \in 1..Len(tasks) :
            tasks[i].st = "shown" => ItemCount(i, pane_items) = 1)

(* the latest future added its item to a pane other than the one that was  *)
(* active when confirm spawned it                                          *)
C9_Witness ==
    /\ last_confirm.path = "spawned"
    /\ tasks[Len(tasks)].st = "shown"
    /\ \E p \in Panes \ {last_confirm.pane} :
          \E it \in BagToSet(pane_items[p]) : it.task = Len(tasks)

(* C10: when the window is gone by the time build_diff_buffer succeeds,    *)
(* the re-entry is refused rather than crashing: no item is added to any   *)
(* pane, no diff view is made, and the future ends in an ordinary state.   *)
C10_StaleWindowIsGuarded ==
    /\ [][\A i \in 1..Len(tasks) :
            (DiffBuildSucceeds(i) /\ ~window_open) =>
                /\ pane_items' = pane_items
                /\ tasks'[i].st = "window_gone"
                /\ UNCHANGED <<widget, host, dismissed>>]_vars
    /\ [](\A i \in 1..Len(tasks) :
            tasks[i].st = "window_gone" => ItemCount(i, pane_items) = 0)

(* a future found the window closed when its diff was ready *)
C10_Witness ==
    /\ ~window_open
    /\ \E i \in 1..Len(tasks) :
          /\ tasks[i].st = "window_gone"
          /\ LogCount(i, log) = 1

---------------------------------------------------------------------------
(* Properties of what the spawned future works on. *)

(* what a future captured: buffers and titles, without its progress *)
Captured(t) ==
    <<t.active_buffer, t.compare_buffer, t.active_title, t.compare_title>>

(* items added for task i in this step *)
AddedFor(i) ==
    {it \in UNION {BagToSet(pane_items'[p]) : p \in Panes} :
        /\ it.task = i
        /\ ItemCount(i, pane_items') > ItemCount(i, pane_items)}

(* C11: the future works on what confirm captured: the active buffer and   *)
(* the buffer and display text of matches[selected_index] as of the        *)
(* confirm call; the view it adds pairs that display text with that        *)
(* buffer and the active title with the active buffer; and no later        *)
(* update_matches or set_selected_index changes any of them.               *)
C11_FutureUsesConfirmTimeSnapshot ==
    [][/\ \A i \in 1..Len(tasks') :
            i > Len(tasks) =>
                /\ tasks'[i].active_buffer = active_buffer.id
                /\ tasks'[i].compare_buffer = matches[selected_index + 1].buffer
                /\ tasks'[i].compare_title = matches[selected_index + 1].display_text
       /\ \A i \in 1..Len(tasks) :
            /\ Captured(tasks'[i]) = Captured(tasks[i])
            /\ \A it \in AddedFor(i) :
                  /\ it.item.source_buffer = tasks[i].compare_buffer
                  /\ it.item.source_title = tasks[i].compare_title
                  /\ it.item.target_buffer = tasks[i].active_buffer
                  /\ it.item.target_title = tasks[i].active_title
                  /\ \E k \in 1..Len(all_matches) :
                        /\ all_matches[k].buffer = it.item.source_buffer
                        /\ all_matches[k].display_text = it.item.source_title]_vars

(* the future of the second candidate has added its view although the      *)
(* picker, filtered and re-selected since, now points at the first one     *)
C11_Witness ==
    /\ Len(tasks) = 1
    /\ tasks[1].st = "shown"
    /\ tasks[1].compare_buffer = 2
    /\ matches # <<>>
    /\ matches[selected_index + 1].buffer = 1
    /\ \E p \in Panes : \E it \in BagToSet(pane_items[p]) :
          it.task = 1 /\ it.item.source_buffer = 2

(* the file name, or "Untitled", of the active buffer as it is now *)
FileNameOrUntitled == IF active_buffer.file = NoFile THEN "Untitled" ELSE active_buffer.file

(* C12: the active title is the active buffer's file name when it has a    *)
(* file and exactly "Untitled" when it has none, taken when confirm runs   *)
(* and not when the future completes.                                      *)
C12_ActiveTitleAtConfirm ==
    [][/\ \A i \in 1..Len(tasks') :
            i > Len(tasks) => tasks'[i].active_title = FileNameOrUntitled
       /\ \A i \in 1..Len(tasks) :
            /\ tasks'[i].active_title = tasks[i].active_title
            /\ \A it \in AddedFor(i) : it.item.target_title = tasks[i].active_title]_vars

(* confirmed once before the active buffer had a file and once after, the  *)
(* first view being added, still as "Untitled", after the buffer was saved *)
C12_Witness ==
    /\ Len(tasks) = 2
    /\ tasks[1].active_title = "Untitled"
    /\ tasks[2].active_title = "a.txt"
    /\ tasks[1].st = "shown"
    /\ tasks[2].st = "building"
    /\ \E p \in Panes : \E it \in BagToSet(pane_items[p]) :
          it.task = 1 /\ it.item.target_title = "Untitled"

---------------------------------------------------------------------------
(* Properties of the futures' outcomes. *)

Ended(i) == i \in 1..Len(tasks) /\ tasks[i].st \in {"shown", "build_failed", "window_gone"}

(* exactly one of: one item added and nothing logged; one record logged    *)
(* and nothing added; nothing added and nothing logged                     *)
OneOutcome(i) ==
    LET added == ItemCount(i, pane_items)
        logged == LogCount(i, log)
    IN  Cardinality({o \in {"added", "logged", "nothing"} :
                        \/ o = "added" /\ added = 1 /\ logged = 0
                        \/ o = "logged" /\ added = 0 /\ logged = 1
                        \/ o = "nothing" /\ added = 0 /\ logged = 0}) = 1

(* C13: nothing cancels a spawned future, not even the dismissal that      *)
(* confirm emits with it: while it is building it can end, and with the    *)
(* executor fair and build_diff_buffer returning it does end, in exactly   *)
(* one way (an item added, a failure logged, or the window found gone),    *)
(* which it then keeps.                                                    *)
C13_EveryFutureEndsOnce ==
    /\ \A i \in 1..MaxTasks : Building(i) ~> (Ended(i) /\ OneOutcome(i))
    /\ [](\A i \in 1..Len(tasks) :
            /\ Building(i) \/ Ended(i)
            /\ Building(i) => (dismissed >= i /\ ENABLED FutureEnds(i))
            /\ Ended(i) => OneOutcome(i)
            /\ tasks[i].st = "shown" => ItemCount(i, pane_items) = 1
            /\ tasks[i].st # "shown" => ItemCount(i, pane_items) = 0)
    /\ [][\A i \in 1..Len(tasks) :
            Ended(i) =>
                /\ tasks'[i].st = tasks[i].st
                /\ ItemCount(i, pane_items') = ItemCount(i, pane_items)
                /\ LogCount(i, log') = LogCount(i, log)]_vars

(* after both dismissals, one future ended in the window and the other     *)
(* found the window gone                                                   *)
C13_Witness ==
    /\ dismissed = 2
    /\ ~window_open
    /\ tasks[1].st \in {"shown", "build_failed"}
    /\ tasks[2].st = "window_gone"

---------------------------------------------------------------------------
(* Properties of the candidate list. *)

C15_FilterIsTotalAndIdempotent ==
    /\ [][\A q \in Queries :
            UpdateMatches(q) =>
                /\ (FilterMatches(all_matches, q))' = matches'
                /\ (ResetIndex(selected_index))' = selected_index'
                /\ all_matches' = all_matches]_vars
    /\ [](window_open => \A q \in Queries : ENABLED UpdateMatches(q))

(* a query has left only the second of two candidates, after a selection *)
C15_Witness ==
    /\ Len(all_matches) = 2
    /\ Len(matches) = 1
    /\ matches[1].buffer = 2
    /\ selected_index = 0
    /\ active_buffer.file = NoFile

(* C16: all_matches is the open_buffers list given to new, in its order,   *)
(* and no set_selected_index, update_matches, confirm, dismissed or        *)
(* render_match call ever changes it.                                      *)
C16_AllMatchesFixed ==
    /\ [][all_matches' = all_matches]_vars
    /\ [](\E titles \in OpenBufferLists :
            /\ Len(all_matches) = Len(titles)
            /\ \A k \in 1..Len(titles) :
                  /\ all_matches[k].buffer = k
                  /\ all_matches[k].display_text = titles[k])

(* two candidates are still listed in order after a query hid them both *)
C16_Witness ==
    /\ Len(all_matches) = 2
    /\ all_matches[1].buffer = 1
    /\ all_matches[2].buffer = 2
    /\ matches = <<>>

(* C17: a future is suspended only at build_diff_buffer: it starts there,  *)
(* and the step that resumes it runs it to its end. That step is one       *)
(* future's alone: it changes no other future and no other future's items, *)
(* spawns nothing, changes no field of the delegate and no pane focus, and *)
(* an item enters a pane only in such a step, one item at a time, in the   *)
(* pane that is active in that very step.                                  *)
C17_PaneInsertionsAreSerialized ==
    [][/\ \A i \in 1..Len(tasks') : i > Len(tasks) =>
             /\ tasks'[i].st = "building"
             /\ pane_items' = pane_items
       /\ \A i \in 1..Len(tasks) :
             tasks'[i].st # tasks[i].st =>
                /\ tasks[i].st = "building"
                /\ tasks'[i].st \in {"shown", "build_failed", "window_gone"}
                /\ Len(tasks') = Len(tasks)
                /\ \A j \in 1..Len(tasks) : j # i =>
                      /\ tasks'[j] = tasks[j]
                      /\ ItemCount(j, pane_items') = ItemCount(j, pane_items)
                /\ widget' = widget
                /\ host' = host
                /\ IF tasks'[i].st = "shown"
                   THEN /\ ItemCount(i, pane_items') = ItemCount(i, pane_items) + 1
                        /\ \A p \in Panes : p # active_pane =>
                              pane_items'[p] = pane_items[p]
                   ELSE pane_items' = pane_items
       /\ pane_items' # pane_items =>
             \E i \in 1..Len(tasks) :
                tasks[i].st = "building" /\ tasks'[i].st = "shown"]_vars

(* of two futures in flight at once the later one has added its item, in   *)
(* a pane activated after both confirms, while the earlier is suspended    *)
C17_Witness ==
    /\ Len(tasks) = 2
    /\ tasks[1].st = "building"
    /\ tasks[2].st = "shown"
    /\ ItemCount(2, pane_items) = 1
    /\ last_confirm.path = "spawned"
    /\ pane_items[last_confirm.pane] = EmptyBag

PassedBothGuards ==
    /\ \E secondary \in BOOLEAN : Confirm(secondary)
    /\ matches # <<>>
    /\ workspace_alive

TerminalEffects ==
    LET n[ps \in SUBSET Panes] ==
            IF ps = {} THEN 0
            ELSE LET p == CHOOSE x \in ps : TRUE
                 IN  BagCardinality(pane_items[p]) + n[ps \ {p}]
    IN  n[Panes] + BagCardinality(log)

(* C18: a confirm call that passes both guards emits one DismissEvent and  *)
(* spawns one future, and no other step does either, so the events emitted *)
(* and the futures spawned are equal in number; the items added to panes   *)
(* and the errors logged are together never more than the futures spawned. *)
C18_DismissalsTasksAndEffects ==
    /\ [][/\ dismissed' = dismissed + (IF PassedBothGuards THEN 1 ELSE 0)
           /\ Len(tasks') = Len(tasks) + (IF PassedBothGuards THEN 1 ELSE 0)]_vars
    /\ [](/\ dismissed = Len(tasks)
           /\ TerminalEffects <= Len(tasks)
           /\ \A i \in 1..Len(tasks) :
                 ItemCount(i, pane_items) + LogCount(i, log) <= 1)

(* two futures have each had their one effect, and a later confirm that    *)
(* found the workspace gone has added nothing to the counts                *)
C18_Witness ==
    /\ dismissed = 2
    /\ Len(tasks) = 2
    /\ TerminalEffects = 2
    /\ last_confirm.path = "no_workspace"

(* what the host does around the picker *)
HostStep ==
    \/ \E p \in Panes : ActivatePane(p)
    \/ CloseWindow
    \/ ReleaseWorkspace
    \/ \E file \in ActiveFiles : SaveActiveBuffer(file)

(* C19: confirm on each of its paths, and the future it spawns, leave      *)
(* all_matches, matches and selected_index as they were; a step that       *)
(* changes matches is no set_selected_index call and no step of the host,  *)
(* and a step that changes selected_index is a set_selected_index or an    *)
(* update_matches call.                                                    *)
C19_ConfirmLeavesTheListAlone ==
    [][/\ (\E secondary \in BOOLEAN : Confirm(secondary)) =>
             UNCHANGED <<all_matches, matches, selected_index>>
       /\ (\E i \in 1..MaxTasks : FutureEnds(i)) =>
             UNCHANGED <<all_matches, matches, selected_index>>
       /\ matches' # matches =>
             /\ ~(\E ix \in Indexes : SetSelectedIndex(ix))
             /\ ~HostStep
             /\ selected_index' = ResetIndex(selected_index)
       /\ selected_index' # selected_index =>
             \/ \E ix \in Indexes : SetSelectedIndex(ix)
             \/ \E q \in Queries : UpdateMatches(q)]_vars

(* the second of two candidates was confirmed and its diff shown, and the  *)
(* list still has both rows with the second one selected                   *)
C19_Witness ==
    /\ last_confirm.path = "spawned"
    /\ Len(tasks) = 1
    /\ tasks[1].st = "shown"
    /\ tasks[1].compare_buffer = 2
    /\ Len(matches) = 2
    /\ selected_index = 1

===========================================================================
